---- MODULE Spec2Model ----
(***************************************************************************)
(* Model of ouch's console macros (src/macros.rs): info!(accessible, ..),  *)
(* info!(inaccessible, ..), warning!(..) and their helpers _info_helper    *)
(* and _warning_helper, together with the write-once flag cli::ACCESSIBLE  *)
(* they read.                                                              *)
(*                                                                         *)
(* Output is modelled as sequences of atoms: a colour token, a literal     *)
(* word of a format string, one space, a message, a newline.  A stream is  *)
(* the sequence of atoms its writer has received.                          *)
(*                                                                         *)
(* Spec      one thread of control; every macro invocation is one action.  *)
(* SpecConc  several threads, one invocation each; the atomic steps are    *)
(*           the read of the flag and each write_fmt call.                 *)
(***************************************************************************)
EXTENDS Integers, Sequences, FiniteSets, TLC

VARIABLES ACCESSIBLE, streams, last, ncalls, out, thr

vars == <<ACCESSIBLE, streams, last, ncalls, out, thr>>

(* ------------------------------ bounds --------------------------------- *)

MaxCalls == 2
MaxMsg == 2
NThreads == 2

Messages == {"m" \o ToString(i) : i \in 1..MaxMsg}
Threads == 1..NThreads

(* --------------------------- colour tokens ----------------------------- *)

YELLOW == "<YELLOW>"
ORANGE == "<ORANGE>"
RESET == "<RESET>"
SP == " "
NL == "\n"

(* ------------------------------ streams -------------------------------- *)

\* The writers a call can be handed: the two process streams, and a writer
\* of the caller's own ("buf").
STDOUT == "stdout"
STDERR == "stderr"
Handles == {STDOUT, STDERR, "buf"}

\* Option<bool> as a sequence of length at most one: <<>> is None.
None == <<>>
Some(b) == <<b>>

(* ------------------------- one run of a macro -------------------------- *)

\* A run: the streams so far, the operations performed in program order,
\* and whether the run has panicked.  A panicked run performs nothing more.
\* flag holds the value the run has read from the cell, once it has.
NewRun(s) == [streams |-> s, ops |-> <<>>, flag |-> FALSE, panicked |-> FALSE]

\* dst.write_fmt(args): all of the atoms are written and the result is Ok,
\* or the writer fails after taking the first k of them and the result is Err.
write_fmt(dst, atoms) ==
    {[dst |-> dst \o atoms, written |-> atoms, ok |-> TRUE]}
    \cup {[dst |-> dst \o SubSeq(atoms, 1, k), written |-> SubSeq(atoms, 1, k),
           ok |-> FALSE] : k \in 0..(Len(atoms) - 1)}

\* Variant: the Err is dropped (`let _ = write!(..)`) and the run goes on.
write_ignore_err(r, h, atoms, name) ==
    IF r.panicked THEN {r}
    ELSE {[r EXCEPT !.streams[h] = w.dst,
                    !.ops = Append(@, [op |-> name, h |-> h, atoms |-> w.written, ok |-> w.ok])]
          : w \in write_fmt(r.streams[h], atoms)}

\* write!(h, ..).unwrap() / print!(..) / eprintln!(..): an Err panics.
write_unwrap(r, h, atoms, name) ==
    IF r.panicked THEN {r}
    ELSE {[r EXCEPT !.streams[h] = w.dst,
                    !.ops = Append(@, [op |-> name, h |-> h, atoms |-> w.written, ok |-> w.ok]),
                    !.panicked = ~w.ok] : w \in write_fmt(r.streams[h], atoms)}

\* Variant: an unset cell reads as false (`.get().copied().unwrap_or(false)`).
get_unwrap_or_false(r, acc) ==
    IF r.panicked THEN r
    ELSE [r EXCEPT !.ops = Append(@, [op |-> "get", h |-> "-", atoms |-> <<>>, ok |-> acc # None]),
                   !.flag = IF acc = None THEN FALSE ELSE acc[1]]

\* ACCESSIBLE.get().unwrap(): yields the value of the cell, panics on None.
get_unwrap(r, acc) ==
    IF r.panicked THEN r
    ELSE [r EXCEPT !.ops = Append(@, [op |-> "get", h |-> "-", atoms |-> <<>>, ok |-> acc # None]),
                   !.flag = IF acc = None THEN FALSE ELSE acc[1],
                   !.panicked = (acc = None)]

\* Variant: the space inside the coloured span ("{}[INFO] {}").
info_prefix_space_inside == <<YELLOW, "[INFO]", SP, RESET>>

\* The format string of _info_helper: "{}[INFO]{} " with YELLOW, RESET.
info_prefix == <<YELLOW, "[INFO]", RESET, SP>>

_info_helper(r, h) == write_unwrap(r, h, info_prefix, "prefix")

\* writeln!(display_handle, $($arg)*).unwrap()
writeln_unwrap(r, h, m) == write_unwrap(r, h, <<m, NL>>, "message")

\* Variant: the prefix is written whatever the flag is.
info_accessible_always_prefix(s, acc, h, m) ==
    LET r1 == get_unwrap(NewRun(s), acc)
    IN  UNION {writeln_unwrap(r, h, m) : r \in _info_helper(r1, h)}

\* info!(@$display_handle, accessible, ..)
info_accessible(s, acc, h, m) ==
    LET r1 == get_unwrap(NewRun(s), acc)
        R2 == IF ~r1.panicked /\ ~r1.flag THEN _info_helper(r1, h) ELSE {r1}
    IN  UNION {writeln_unwrap(r, h, m) : r \in R2}

\* Variant: the flag is read but the message is written whatever it is.
info_inaccessible_unguarded(s, acc, h, m) ==
    LET r1 == get_unwrap(NewRun(s), acc)
    IN  UNION {writeln_unwrap(r, h, m) : r \in _info_helper(r1, h)}

\* Variant: the call to _info_helper is left out.
info_inaccessible_no_prefix(s, acc, h, m) ==
    LET r1 == get_unwrap(NewRun(s), acc)
    IN  IF ~r1.panicked /\ ~r1.flag THEN writeln_unwrap(r1, h, m) ELSE {r1}

\* info!(@$display_handle, inaccessible, ..)
info_inaccessible(s, acc, h, m) ==
    LET r1 == get_unwrap(NewRun(s), acc)
    IN  IF ~r1.panicked /\ ~r1.flag
        THEN UNION {writeln_unwrap(r, h, m) : r \in _info_helper(r1, h)}
        ELSE {r1}

\* Variant: the two branches exchanged.
warning_prefix_swapped(flag) ==
    IF flag THEN <<ORANGE, "Warning:", RESET, SP>>
    ELSE <<ORANGE, "[WARNING]", RESET, SP>>

\* The format strings of _warning_helper: "{}Warning:{} " and "{}[WARNING]{} ".
warning_prefix(flag) ==
    IF ~flag THEN <<ORANGE, "Warning:", RESET, SP>>
    ELSE <<ORANGE, "[WARNING]", RESET, SP>>

\* print! writes to the standard output, eprintln! to the standard error.
print_stream == STDOUT
eprintln_stream == STDERR

_warning_helper(r, acc) ==
    LET r1 == get_unwrap(r, acc)
    IN  IF r1.panicked THEN {r1}
        ELSE write_unwrap(r1, print_stream, warning_prefix(r1.flag), "prefix")

\* Variant: the message is printed before the helper runs.
warning_message_first(s, acc, m) ==
    UNION {_warning_helper(r, acc)
           : r \in write_unwrap(NewRun(s), eprintln_stream, <<m, NL>>, "message")}

\* warning!(..)
warning(s, acc, m) ==
    UNION {write_unwrap(r, eprintln_stream, <<m, NL>>, "message")
           : r \in _warning_helper(NewRun(s), acc)}

(* --------------------------- Spec: one thread -------------------------- *)

IdleThread == [pc |-> "idle", kind |-> "none", h |-> "-", m |-> "-", flag |-> FALSE]

NoCall ==
    [kind |-> "none", h |-> "-", m |-> "-", acc |-> None,
     before |-> [h \in Handles |-> <<>>], ops |-> <<>>, panicked |-> FALSE]

Init ==
    /\ ACCESSIBLE = None
    /\ streams = [h \in Handles |-> <<>>]
    /\ last = NoCall
    /\ ncalls = 0
    /\ out = [h \in Handles |-> <<>>]
    /\ thr = [t \in Threads |-> IdleThread]

\* A panic ends the process.
Running == ~last.panicked /\ ncalls < MaxCalls

Finish(kind, h, m, r) ==
    /\ streams' = r.streams
    /\ last' = [kind |-> kind, h |-> h, m |-> m, acc |-> ACCESSIBLE,
                before |-> streams, ops |-> r.ops, panicked |-> r.panicked]
    /\ ncalls' = ncalls + 1
    /\ UNCHANGED <<ACCESSIBLE, out, thr>>

\* cli::ACCESSIBLE.set(b): the cell takes a value once.
SetAccessible(b) ==
    /\ ~last.panicked
    /\ ACCESSIBLE = None
    /\ ACCESSIBLE' = Some(b)
    /\ UNCHANGED <<streams, last, ncalls, out, thr>>

InfoAccessible(h, m) ==
    /\ Running
    /\ \E r \in info_accessible(streams, ACCESSIBLE, h, m) : Finish("info_accessible", h, m, r)

InfoInaccessible(h, m) ==
    /\ Running
    /\ \E r \in info_inaccessible(streams, ACCESSIBLE, h, m) : Finish("info_inaccessible", h, m, r)

Warning(m) ==
    /\ Running
    /\ \E r \in warning(streams, ACCESSIBLE, m) : Finish("warning", "-", m, r)

Next ==
    \/ \E b \in BOOLEAN : SetAccessible(b)
    \/ \E h \in Handles, m \in Messages : InfoAccessible(h, m)
    \/ \E h \in Handles, m \in Messages : InfoInaccessible(h, m)
    \/ \E m \in Messages : Warning(m)

Spec == Init /\ [][Next]_vars

(* ----------------------- SpecConc: several threads --------------------- *)

\* Threads share the process streams only: a writer held by `&mut` belongs
\* to one caller.
SharedHandles == {STDOUT, STDERR}

\* The cell is set during startup, before the threads run.
InitConc ==
    /\ ACCESSIBLE \in {Some(TRUE), Some(FALSE)}
    /\ streams = [h \in Handles |-> <<>>]
    /\ last = NoCall
    /\ ncalls = 0
    /\ out = [h \in Handles |-> <<>>]
    /\ thr = [t \in Threads |-> IdleThread]

\* The atoms of one write, each marked with the thread that wrote it.
Tag(atoms, t) == [i \in 1..Len(atoms) |-> [atom |-> atoms[i], by |-> t]]

\* Where a macro's first step after reading the flag is.
AfterGet(kind, flag) ==
    CASE kind = "info_accessible" -> IF ~flag THEN "prefix" ELSE "message"
      [] kind = "info_inaccessible" -> IF ~flag THEN "prefix" ELSE "done"
      [] kind = "warning" -> "prefix"

\* A thread enters a macro and reads the flag.
CallGet(t, kind, h, m) ==
    /\ thr[t].pc = "idle"
    /\ LET r == get_unwrap(NewRun(streams), ACCESSIBLE)
       IN  thr' = [thr EXCEPT ![t] =
                     [pc |-> IF r.panicked THEN "panicked" ELSE AfterGet(kind, r.flag),
                      kind |-> kind, h |-> h, m |-> m, flag |-> r.flag]]
    /\ UNCHANGED <<ACCESSIBLE, streams, last, ncalls, out>>

PrefixStream(c) == IF c.kind = "warning" THEN print_stream ELSE c.h
PrefixAtoms(c) == IF c.kind = "warning" THEN warning_prefix(c.flag) ELSE info_prefix
MessageStream(c) == IF c.kind = "warning" THEN eprintln_stream ELSE c.h

\* One write_fmt call: the stream's lock is held for the whole of it.
WriteStep(t, dst, atoms, then) ==
    \E w \in write_fmt(out[dst], Tag(atoms, t)) :
        /\ out' = [out EXCEPT ![dst] = w.dst]
        /\ thr' = [thr EXCEPT ![t].pc = IF w.ok THEN then ELSE "panicked"]
        /\ UNCHANGED <<ACCESSIBLE, streams, last, ncalls>>

WritePrefix(t) ==
    /\ thr[t].pc = "prefix"
    /\ WriteStep(t, PrefixStream(thr[t]), PrefixAtoms(thr[t]), "message")

WriteMessage(t) ==
    /\ thr[t].pc = "message"
    /\ WriteStep(t, MessageStream(thr[t]), <<thr[t].m, NL>>, "done")

NextConc ==
    \/ \E t \in Threads, h \in SharedHandles, m \in Messages : CallGet(t, "info_accessible", h, m)
    \/ \E t \in Threads, h \in SharedHandles, m \in Messages : CallGet(t, "info_inaccessible", h, m)
    \/ \E t \in Threads, m \in Messages : CallGet(t, "warning", "-", m)
    \/ \E t \in Threads : WritePrefix(t)
    \/ \E t \in Threads : WriteMessage(t)

SpecConc == InitConc /\ [][NextConc]_vars

(* ------------------------------ properties ----------------------------- *)

\* The atoms a call has written, over all streams, in program order.
RECURSIVE Written(_)
Written(ops) == IF ops = <<>> THEN <<>> ELSE Head(ops).atoms \o Written(Tail(ops))

Returned(kind) == last.kind = kind /\ ~last.panicked

\* C1: an info call with importance Accessible made while the flag is true
\* appends exactly the message and one newline to the given sink and nothing
\* else: no "[INFO]" prefix, no colour token, no byte to any other stream.
C1_AccessibleFlagTrue ==
    (Returned("info_accessible") /\ last.acc = Some(TRUE)) =>
        /\ streams = [last.before EXCEPT ![last.h] = @ \o <<last.m, NL>>]
        /\ Written(last.ops) = <<last.m, NL>>

C1_Witness ==
    /\ Returned("info_accessible") /\ last.acc = Some(TRUE)
    /\ last.h = "buf" /\ last.before["buf"] # <<>>

\* C2: an info call with importance Accessible made while the flag is false
\* appends to the given sink, in this order, YELLOW, "[INFO]", RESET, one
\* space, the message and a newline: the prefix comes before the message and
\* only "[INFO]" lies between the colour tokens.
C2_AccessibleFlagFalse ==
    (Returned("info_accessible") /\ last.acc = Some(FALSE)) =>
        /\ streams[last.h] = last.before[last.h] \o <<YELLOW, "[INFO]", RESET, SP, last.m, NL>>
        /\ Len(last.ops) = 3
        /\ last.ops[2].op = "prefix" /\ last.ops[3].op = "message"

C2_Witness ==
    /\ Returned("info_accessible") /\ last.acc = Some(FALSE)
    /\ last.before[last.h] # <<>>

\* C3: an info call with importance Inaccessible made while the flag is true
\* is a no-op: it returns normally and every stream is left unchanged, with
\* neither prefix nor message written.
C3_InaccessibleFlagTrue ==
    (last.kind = "info_inaccessible" /\ last.acc = Some(TRUE)) =>
        /\ ~last.panicked
        /\ streams = last.before
        /\ \A i \in 1..Len(last.ops) : last.ops[i].op = "get"

C3_Witness ==
    /\ last.kind = "info_inaccessible" /\ last.acc = Some(TRUE)
    /\ last.before[last.h] # <<>>

\* C4: when the flag is false an info call with importance Inaccessible
\* leaves the streams exactly as an info call with importance Accessible
\* does on the same message, the same sink and the same starting streams.
C4_InaccessibleAsAccessible ==
    (Returned("info_inaccessible") /\ last.acc = Some(FALSE)) =>
        /\ \E r \in info_accessible(last.before, last.acc, last.h, last.m) : ~r.panicked
        /\ \A r \in info_accessible(last.before, last.acc, last.h, last.m) :
               ~r.panicked => r.streams = streams

C4_Witness ==
    /\ Returned("info_inaccessible") /\ last.acc = Some(FALSE)
    /\ last.before[last.h] # <<>>
    /\ streams[last.h] # last.before[last.h]

\* C5: a warning call writes its prefix and then the message to the standard
\* error channel, under either value of the flag, and writes nothing to the
\* standard output.
C5_WarningOnStderr ==
    Returned("warning") =>
        /\ streams[STDOUT] = last.before[STDOUT]
        /\ \E w \in {"Warning:", "[WARNING]"} :
               streams[STDERR] = last.before[STDERR] \o <<ORANGE, w, RESET, SP, last.m, NL>>

\* C6 as stated: the text of a warning call is ORANGE, "Warning: " with the
\* trailing space inside the coloured span, RESET, the message when the flag
\* is false, and the same with "[WARNING] " when the flag is true.
C6_SpaceInsideSpan ==
    Returned("warning") =>
        Written(last.ops) =
            <<ORANGE, IF last.acc = Some(FALSE) THEN "Warning:" ELSE "[WARNING]",
              SP, RESET, last.m, NL>>

\* C6 amended: the atoms a warning call that returns normally writes, in
\* program order, are ORANGE, "Warning:" (flag false) or "[WARNING]" (flag
\* true), RESET, one space after the coloured span, the message and a
\* newline: the word is chosen by the flag alone and the message is never
\* omitted.
C6_SpaceAfterSpan ==
    Returned("warning") =>
        Written(last.ops) =
            <<ORANGE, IF last.acc = Some(FALSE) THEN "Warning:" ELSE "[WARNING]",
              RESET, SP, last.m, NL>>

C6_Witness ==
    /\ Returned("warning") /\ last.acc = Some(TRUE)
    /\ ncalls = MaxCalls

\* C7: every reporter call made before the flag has been set fails fatally,
\* whatever its kind: it neither returns normally nor falls back to a mode.
C7_UnsetIsFatal ==
    (last.kind # "none" /\ last.acc = None) => last.panicked

C7_Witness ==
    /\ last.kind = "info_inaccessible" /\ last.acc = None /\ last.panicked

\* C8: a write failure ends the call at once as a fatal error and is never
\* retried: a failed write is the last operation of the call, the call has
\* panicked, and no write is performed twice.
C8_WriteFailureFatal ==
    /\ \A i \in 1..Len(last.ops) :
           (last.ops[i].op # "get" /\ ~last.ops[i].ok) => (i = Len(last.ops) /\ last.panicked)
    /\ \A i, j \in 1..Len(last.ops) : last.ops[i].op = last.ops[j].op => i = j

C8_Witness ==
    /\ last.kind = "warning" /\ last.panicked
    /\ Len(last.ops) = 2 /\ last.ops[2].op = "prefix" /\ ~last.ops[2].ok

\* C9: when threads issue reporter calls on the same stream concurrently, no
\* other caller's prefix or message lies between one caller's prefix and its
\* message in that stream.
C9_NoInterleaving ==
    \A h \in SharedHandles : \A i, j, k \in 1..Len(out[h]) :
        (/\ i < j /\ j < k
         /\ out[h][i].by = out[h][k].by
         /\ thr[out[h][i].by].pc = "done" /\ thr[out[h][j].by].pc = "done")
        => out[h][j].by = out[h][i].by

\* C10: in every reporter path the flag is read before the first write, so a
\* call that fails because the flag is unset leaves every stream unchanged.
C10_FlagReadFirst ==
    /\ last.kind # "none" => (last.ops # <<>> /\ last.ops[1].op = "get")
    /\ (last.kind # "none" /\ last.acc = None) =>
           (streams = last.before /\ Written(last.ops) = <<>> /\ Len(last.ops) = 1)

C10_Witness ==
    /\ last.kind = "warning" /\ last.acc = None /\ last.panicked

====
